---- MODULE Spec2Model ----
(***************************************************************************)
(* Model of theforce/dynamics/leapfrog.py: the Leapfrog on-the-fly update  *)
(* controller.  The controller's fields are the variables; one action per  *)
(* public entry point (run, run_updates, update_model, undo_update, doit)  *)
(* and one per iteration of the two driver loops.  The surrogate model     *)
(* (PosteriorPotential) is kept as two LIFO lists, data and X.             *)
(* Model of theforce/similarity/pair.py: the gradients of the pair         *)
(* kernels, scattered from the pairs of a structure to its atoms.          *)
(***************************************************************************)
EXTENDS Integers, Sequences, FiniteSets, TLC

\* ------------------------------------------------------------- bounds
MaxStep == 4        \* largest self.step explored under SpecRun
MaxStepApi == 3     \* largest self.step explored under Spec
MaxStepE2E == 7     \* largest self.step explored under SpecE2E
MaxE == 2           \* potential energies are drawn from 1..MaxE
NAtoms == 2         \* local environments of the structure
MaxChange == 2      \* change magnitudes reported by add_1inducing: 0..MaxChange
MaxRun == 2         \* largest maxsteps / maxupdates argument
MaxDirect == 2      \* direct update_model / undo_update / doit calls explored
MaxData == 2        \* the model keeps at most MaxData structures
MaxX == 3           \* the model keeps at most MaxX inducing environments
NAtomsPair == 3     \* atoms of a structure given to a pair kernel
MaxPairs == 2       \* pairs selected in the structure that is differentiated
MaxOther == 2       \* pairs selected in the other structure
NDim == 2           \* Cartesian components kept of each vector
MaxK == 2           \* kernel derivatives are drawn from -1..MaxK

\* ------------------------------------------------- program constants
\* ediff (default 0.1) and torch.finfo().tiny on an integer scale that keeps
\* their order 0 < tiny < ediff.
Ediff == 2
Tiny == 1
\* the volatility thresholds chosen by the constructor
VolatileNoModel == 2
\* the constructor's default skip_volatile
SkipVolatileDefault == 3
VolatileWithModel == 0 - 1

Energies == 1..MaxE
Changes == 0..MaxChange
Locs == 1..NAtoms
\* prob argument in percent: 0, 1/2, 1
Probs == {0, 50, 100}
Algorithms == {"robust", "fast", "fastfast", "ultrafast"}

VARIABLES
    algorithm,      \* self.algorithm: the algorithm configured at construction
    volatile_thr,   \* self._volatile
    skip,           \* self.skip
    skip_volatile,  \* self.skip_volatile
    step,           \* self.step
    energy,         \* self.energy
    temperature,    \* self.temperature
    fp,             \* self._fp
    fp_e,           \* self._fp_e
    ext,            \* self._ext
    data,           \* self.model.data: "real" / "fake" labelled structures
    X,              \* self.model.X: inducing local environments (unlabelled)
    data_plus,      \* self.data_plus
    ref_plus,       \* self.ref_plus
    plus_set,       \* whether data_plus / ref_plus exist as attributes yet
    results,        \* self.atoms.calc.results: "full" or "empty"
    pc,             \* "idle", "run" or "run_updates" (the driver loop in progress), or
                    \* "aborted" once an exception of the reference calculator has
                    \* left the controller's caller
    prob,           \* prob argument of the driver call in progress
    remaining,      \* iterations left of run's for loop
    maxupdates,     \* maxupdates argument of run_updates
    updates,        \* run_updates' local updates
    growths,        \* update_model calls of the current driver call that returned True
    outcome,        \* how the last finished call ended
    lastcall,       \* the last entry point that acted
    dec,            \* what the last action's doit call saw and returned
    upd,            \* what the last action's update_model call saw and returned
    trace,          \* events of the last action, in order
    direct,         \* direct calls made so far (bounded exploration)
    kernel,         \* the pair-kernel class whose gradient is taken
    pstruct,        \* the structure differentiated: i, j, u of its selected pairs
    pcontrib,       \* the contribution c of each selected pair
    pgrad,          \* the gradient returned, per atom
    pside           \* "none", or which of leftgrad / rightgrad returned pgrad

vars == <<algorithm, volatile_thr, skip, skip_volatile, step, energy, temperature,
          fp, fp_e, ext, data, X, data_plus, ref_plus, plus_set, results, pc, prob,
          remaining, maxupdates, updates, growths, outcome, lastcall, dec,
          upd, trace, direct, kernel, pstruct, pcontrib, pgrad, pside>>

\* the state of a pair-kernel evaluation
pairvars == <<kernel, pstruct, pcontrib, pgrad, pside>>

\* what no action of the controller changes: its configuration and the pair
\* kernels' state
cfgvars == <<algorithm, volatile_thr, skip, skip_volatile, pairvars>>

\* the controller's state
leapfrogvars == <<algorithm, volatile_thr, skip, skip_volatile, step, energy, temperature,
                  fp, fp_e, ext, data, X, data_plus, ref_plus, plus_set, results, pc, prob,
                  remaining, maxupdates, updates, growths, outcome, lastcall, dec,
                  upd, trace, direct>>

Last(s) == s[Len(s)]
ButLast(s) == SubSeq(s, 1, Len(s) - 1)

\* ------------------------------------------------------------- volatile
\* mutant of volatileOf: a strict comparison
volatileOf_Strict(e) == Len(e) < volatile_thr

\* Leapfrog.volatile applied to a list of extremum steps
volatileOf(e) == Len(e) <= volatile_thr

volatile == volatileOf(ext)

\* Leapfrog.sizes of a model state
sizesOf(m) == <<Len(m.data), Len(m.X)>>

sizes == <<Len(data), Len(X)>>

\* ------------------------------------------------------------------ doit
\* np.random.choice([True, False], p=[prob, 1-prob]): the values it can return
Bernoulli(p) == IF p = 100 THEN {TRUE} ELSE IF p = 0 THEN {FALSE} ELSE BOOLEAN

\* mutant of doitExt: the check against the previous extremum is lost
doitExt_NoSuppress ==
    /\ Len(energy) >= 3
    /\ (energy[Len(energy)] - energy[Len(energy) - 1])
         * (energy[Len(energy) - 1] - energy[Len(energy) - 2]) < 0

\* doit, "# check": whether the current step is flagged as an extremum
doitExt ==
    /\ Len(energy) >= 3
    /\ LET d1 == energy[Len(energy)] - energy[Len(energy) - 1]
           d2 == energy[Len(energy) - 1] - energy[Len(energy) - 2]
       IN  /\ d1 * d2 < 0
           /\ ~(Len(ext) > 0 /\ step - Last(ext) = 1)

\* doit, "# decide": last = 0 if len(self._fp) == 0 else self._fp[-1]
doitLast == IF Len(fp) = 0 THEN 0 ELSE Last(fp)

\* mutant of doitExtremum: volatility is read before the append
doitExtremum_VolatileBefore(ex, coin) ==
    IF ~volatileOf(ButLast(ex)) /\ Last(ex) - doitLast < skip THEN FALSE ELSE coin

\* mutant of doitExtremum: the distance to the last reference evaluation is
\* not tested
doitExtremum_NoSkip(ex, coin) == coin

\* doit's extremum branch: ex is self._ext after the append, coin the draw
doitExtremum(ex, coin) ==
    IF ~volatileOf(ex) /\ Last(ex) - doitLast < skip THEN FALSE ELSE coin

\* mutant of doitPlain: the gap test admits a gap equal to skip_volatile
doitPlain_GapReached ==
    IF volatileOf(ext) /\ ((step = 0 /\ Len(fp) = 0) \/ step - doitLast >= skip_volatile)
    THEN TRUE
    ELSE FALSE

\* mutant of doitPlain: the first-step test forgets the reference evaluations
doitPlain_AnyFirstStep ==
    IF volatileOf(ext) /\ (step = 0 \/ step - doitLast > skip_volatile)
    THEN TRUE
    ELSE FALSE

\* mutant of doitPlain: the gap test waits one step longer
doitPlain_LateGap ==
    IF volatileOf(ext) /\ ((step = 0 /\ Len(fp) = 0) \/ step - doitLast > skip_volatile + 1)
    THEN TRUE
    ELSE FALSE

\* doit's other branch
doitPlain ==
    IF volatileOf(ext) /\ ((step = 0 /\ Len(fp) = 0) \/ step - doitLast > skip_volatile)
    THEN TRUE
    ELSE FALSE

\* mutant of recordExtremum: the list restarts once it holds two extrema
recordExtremum_Restart(e, s) == IF Len(e) >= 2 THEN <<s>> ELSE e \o <<s>>

\* doit: self._ext += [self.step]
recordExtremum(e, s) == e \o <<s>>

\* Leapfrog.doit(prob) with the random draw coin: the new self._ext, the
\* returned value, and what the call observed
doit(p, coin) ==
    IF doitExt
    THEN LET ex == recordExtremum(ext, step)
         IN  [called |-> TRUE, flagged |-> TRUE, ext |-> ex, res |-> doitExtremum(ex, coin),
              vol |-> volatileOf(ex), last |-> doitLast, prob |-> p, step |-> step]
    ELSE [called |-> TRUE, flagged |-> FALSE, ext |-> ext, res |-> doitPlain,
          vol |-> volatileOf(ext), last |-> doitLast, prob |-> p, step |-> step]

NoDec == [called |-> FALSE, flagged |-> FALSE, ext |-> <<>>, res |-> FALSE,
          vol |-> FALSE, last |-> 0, prob |-> 0, step |-> 0]

\* --------------------------------------------- the surrogate model's primitives
\* A model state m carries the lists an algorithm mutates, the events so far
\* (tr), the calculator cache (results), the algorithm's added_refs counter
\* (refs) and the exception in flight, if any (err: "none", or "calc" once the
\* reference calculator has raised).
Ev(m, name, arg) == [m EXCEPT !.tr = Append(@, <<name, arg>>)]

\* PosteriorPotential.add_1inducing(loc, ediff): the environment is kept when the
\* change c it causes reaches the threshold, and c is returned
add_1inducing(m, loc, ediff, c) ==
    IF c >= ediff
    THEN Ev([m EXCEPT !.X = Append(@, "loc")], "ind_acc", loc)
    ELSE Ev(m, "ind_rej", loc)

\* PosteriorPotential.add_1atoms(new, ediff, fdiff): the structure (labelled by
\* where its energy came from) is kept when the model accepts it
add_1atoms(m, label, acc) ==
    IF acc
    THEN Ev([m EXCEPT !.data = Append(@, label)], "data_acc", Len(m.data) + 1)
    ELSE Ev(m, "data_rej", Len(m.data))

\* PosteriorPotential.pop_1data / pop_1inducing: remove the last entry
pop_1data(m) == Ev([m EXCEPT !.data = ButLast(@)], "pop_data", Len(m.data))

pop_1inducing(m) == Ev([m EXCEPT !.X = ButLast(@)], "pop_ind", Len(m.X))

\* ------------------------------------------------------------- snapshot
\* Leapfrog.snapshot(fake): a fake snapshot reads the surrogate's own energy
\* (filling the calculator cache); a real one calls the reference calculator,
\* which may raise (ok = FALSE), and records the step and the exact energy
\* (every exact energy is the one value "exact": no decision reads it).
snapshot(m, fake, ok) ==
    IF fake THEN Ev([m EXCEPT !.results = "full"], "fake", step)
    ELSE IF ~ok THEN Ev([m EXCEPT !.err = "calc"], "raise", step)
    ELSE Ev([m EXCEPT !.fp = Append(@, step), !.fp_e = Append(@, "exact")], "fp", step)

\* ediff = self.ediff if self.sizes[1] > 1 else torch.finfo().tiny
ediffNow(m) == IF sizesOf(m)[2] > 1 THEN Ediff ELSE Tiny

\* ------------------------------------------------------------ algorithms
\* An oracle o fixes what the collaborators answer during one update_model call:
\* o.chg[loc] the change add_1inducing reports for loc, o.acc1 / o.acc2 whether
\* the first / second add_1atoms keeps the structure, o.ok whether the reference
\* calculator succeeds, o.q the leakage ranking of the locs.
Rankings == {q \in [Locs -> Locs] : \A i, j \in Locs : q[i] = q[j] => i = j}

Oracles == [chg : [Locs -> Changes], acc1 : BOOLEAN, acc2 : BOOLEAN, ok : BOOLEAN,
            q : Rankings]

\* mutant of robustLocs: the loop is left at the first declined environment
RECURSIVE robustLocs_Break(_, _, _)
robustLocs_Break(m, k, o) ==
    IF k > NAtoms THEN m
    ELSE LET ediff == ediffNow(m)
             m1 == add_1inducing(m, k, ediff, o.chg[k])
         IN  IF o.chg[k] >= ediff THEN robustLocs_Break(m1, k + 1, o) ELSE m1

\* algorithm_robust: for loc in new.loc
RECURSIVE robustLocs(_, _, _)
robustLocs(m, k, o) ==
    IF k > NAtoms THEN m
    ELSE robustLocs(add_1inducing(m, k, ediffNow(m), o.chg[k]), k + 1, o)

\* Leapfrog.algorithm_robust(datafirst)
algorithm_robust(m, datafirst, o) ==
    LET new == snapshot(m, FALSE, o.ok)
    IN  IF new.err # "none" THEN new
        ELSE LET m1 == IF datafirst THEN add_1atoms(new, "real", o.acc1) ELSE new
                 m2 == robustLocs(m1, 1, o)
             IN  IF ~datafirst THEN add_1atoms(m2, "real", o.acc1) ELSE m2

\* algorithm_fast: for loc in self.atoms.calc.atoms, counting added_refs
RECURSIVE fastLocs(_, _, _)
fastLocs(m, k, o) ==
    IF k > NAtoms THEN m
    ELSE LET ediff == ediffNow(m)
             m1 == add_1inducing(m, k, ediff, o.chg[k])
             m2 == IF o.chg[k] >= ediff THEN [m1 EXCEPT !.refs = @ + 1] ELSE m1
         IN  fastLocs(m2, k + 1, o)

\* mutant of algorithm_fast: the reference evaluation is made whatever
\* added_refs is
algorithm_fast_AlwaysEvaluate(m, o) ==
    LET m1 == fastLocs([m EXCEPT !.refs = 0], 1, o)
        new == snapshot(m1, FALSE, o.ok)
    IN  IF new.err # "none" THEN new ELSE add_1atoms(new, "real", o.acc1)

\* Leapfrog.algorithm_fast
algorithm_fast(m, o) ==
    LET m1 == fastLocs([m EXCEPT !.refs = 0], 1, o)
    IN  IF m1.refs > 0
        THEN LET new == snapshot(m1, FALSE, o.ok)
             IN  IF new.err # "none" THEN new ELSE add_1atoms(new, "real", o.acc1)
        ELSE m1

\* leaks = self.model.leakages(locs); q = torch.argsort(leaks, descending=True):
\* the ranking the model answers, noted as one event per rank
RECURSIVE ranked(_, _, _)
ranked(m, i, o) ==
    IF i > NAtoms THEN m ELSE ranked(Ev(m, "rank", o.q[i]), i + 1, o)

\* mutant of rankedLocs: the scan goes on after a change below the threshold
RECURSIVE rankedLocs_NoBreak(_, _, _)
rankedLocs_NoBreak(m, i, o) ==
    IF i > NAtoms THEN m
    ELSE LET loc == o.q[i]
             ediff == ediffNow(m)
             m1 == add_1inducing(m, loc, ediff, o.chg[loc])
         IN  IF o.chg[loc] >= ediff
             THEN rankedLocs_NoBreak([m1 EXCEPT !.refs = @ + 1], i + 1, o)
             ELSE rankedLocs_NoBreak(m1, i + 1, o)

\* algorithm_fastfast / algorithm_ultrafast: for k in q, with the break at the
\* first change below the threshold
RECURSIVE rankedLocs(_, _, _)
rankedLocs(m, i, o) ==
    IF i > NAtoms THEN m
    ELSE LET loc == o.q[i]
             ediff == ediffNow(m)
             m1 == add_1inducing(m, loc, ediff, o.chg[loc])
         IN  IF o.chg[loc] >= ediff
             THEN rankedLocs([m1 EXCEPT !.refs = @ + 1], i + 1, o)
             ELSE Ev(m1, "log_break", m1.refs)

\* Leapfrog.algorithm_fastfast
algorithm_fastfast(m, o) ==
    LET m1 == rankedLocs(ranked([m EXCEPT !.refs = 0], 1, o), 1, o)
    IN  IF m1.refs > 0
        THEN LET new == snapshot(m1, FALSE, o.ok)
             IN  IF new.err # "none" THEN new ELSE add_1atoms(new, "real", o.acc1)
        ELSE m1

\* mutant of algorithm_ultrafast: the real evaluation is made whether or not
\* the tentative structure was kept
algorithm_ultrafast_AlwaysReal(m, o) ==
    LET m1 == rankedLocs(ranked([m EXCEPT !.refs = 0], 1, o), 1, o)
    IN  IF m1.refs > 0
        THEN LET a == Len(m1.data)
                 fake == snapshot(m1, TRUE, o.ok)
                 m2 == add_1atoms(fake, "fake", o.acc1)
                 m3 == IF Len(m2.data) > a THEN pop_1data(m2) ELSE m2
                 new == snapshot(m3, FALSE, o.ok)
             IN  IF new.err # "none" THEN new
                 ELSE add_1atoms(new, "real", o.acc2)
        ELSE m1

\* mutant of algorithm_ultrafast: the tentative entry is not popped before the
\* real evaluation
algorithm_ultrafast_NoPop(m, o) ==
    LET m1 == rankedLocs(ranked([m EXCEPT !.refs = 0], 1, o), 1, o)
    IN  IF m1.refs > 0
        THEN LET a == Len(m1.data)
                 fake == snapshot(m1, TRUE, o.ok)
                 m2 == add_1atoms(fake, "fake", o.acc1)
             IN  IF Len(m2.data) > a
                 THEN LET new == snapshot(m2, FALSE, o.ok)
                      IN  IF new.err # "none" THEN new
                          ELSE add_1atoms(new, "real", o.acc2)
                 ELSE m2
        ELSE m1

\* Leapfrog.algorithm_ultrafast
algorithm_ultrafast(m, o) ==
    LET m1 == rankedLocs(ranked([m EXCEPT !.refs = 0], 1, o), 1, o)
    IN  IF m1.refs > 0
        THEN LET a == Len(m1.data)
                 fake == snapshot(m1, TRUE, o.ok)
                 m2 == add_1atoms(fake, "fake", o.acc1)
             IN  IF Len(m2.data) > a
                 THEN LET m3 == pop_1data(m2)
                          new == snapshot(m3, FALSE, o.ok)
                      IN  IF new.err # "none" THEN new
                          ELSE add_1atoms(new, "real", o.acc2)
                 ELSE m2
        ELSE m1

\* self.algorithm(): the method looked up at construction as 'algorithm_' + name
runAlgorithm(name, m, o) ==
    CASE name = "robust" -> algorithm_robust(m, TRUE, o)
      [] name = "fast" -> algorithm_fast(m, o)
      [] name = "fastfast" -> algorithm_fastfast(m, o)
      [] name = "ultrafast" -> algorithm_ultrafast(m, o)

\* --------------------------------------------------------- update_model
\* the entries an algorithm added and left in the model, in the order of their
\* insertion, read off its events: "d" a structure, "i" an inducing point (a
\* pop_1data takes back the structure added last)
RECURSIVE insertions(_)
insertions(tr) ==
    IF Len(tr) = 0 THEN <<>>
    ELSE LET rest == insertions(ButLast(tr))
             ev == Last(tr)[1]
         IN  CASE ev = "data_acc" -> Append(rest, "d")
               [] ev = "ind_acc" -> Append(rest, "i")
               [] ev = "pop_data" ->
                    LET k == CHOOSE j \in 1..Len(rest) :
                                 rest[j] = "d" /\ \A l \in (j + 1)..Len(rest) : rest[l] # "d"
                    IN  SubSeq(rest, 1, k - 1) \o SubSeq(rest, k + 1, Len(rest))
               [] OTHER -> rest

\* mutant of chosenAlgorithm: volatility is ignored
chosenAlgorithm_Configured(ex) == algorithm

\* the algorithm update_model picks when self._ext is ex
chosenAlgorithm(ex) == IF volatileOf(ex) THEN "robust" ELSE algorithm

\* mutant of grew: only the data count is looked at
grew_DataOnly(size1, size2) == size2[1] - size1[1] > 0

\* data_plus > 0 or ref_plus > 0
grew(size1, size2) == size2[1] - size1[1] > 0 \/ size2[2] - size1[2] > 0

\* Leapfrog.update_model on model state m, with self._ext = ex and oracle o.
\* The result carries the final model state (m), the sizes before and after,
\* the algorithm that ran, and the returned value tf; when the reference
\* calculator raised, the exception leaves update_model before size2 is read.
update_model(m, ex, o) ==
    LET size1 == sizesOf(m)
        ran == chosenAlgorithm(ex)
        m1 == runAlgorithm(ran, m, o)
        size2 == sizesOf(m1)
        tf == grew(size1, size2)
        m2 == IF tf THEN Ev([m1 EXCEPT !.results = "empty"], "clear", 0) ELSE m1
    IN  IF m1.err # "none"
        THEN [called |-> TRUE, err |-> m1.err, m |-> m1, size1 |-> size1, size2 |-> size1,
              ran |-> ran, vol |-> volatileOf(ex), tf |-> FALSE, results0 |-> m.results,
              ins |-> <<>>]
        ELSE [called |-> TRUE, err |-> "none", m |-> m2, size1 |-> size1, size2 |-> size2,
              ran |-> ran, vol |-> volatileOf(ex), tf |-> tf, results0 |-> m.results,
              ins |-> insertions(SubSeq(m1.tr, Len(m.tr) + 1, Len(m1.tr)))]

\* every outcome update_model can have from model state m, the model staying
\* within its bounds
Updates(m, ex) ==
    {u \in {update_model(m, ex, o) : o \in Oracles} :
        Len(u.m.data) <= MaxData /\ Len(u.m.X) <= MaxX}

\* the controller's current model state, with an empty event list
Now(tr) == [data |-> data, X |-> X, fp |-> fp, fp_e |-> fp_e, results |-> results,
            tr |-> tr, refs |-> 0, err |-> "none"]

\* what upd holds when the last action called no update_model
NoUpd == [called |-> FALSE, err |-> "none", size1 |-> <<0, 0>>, size2 |-> <<0, 0>>,
          ran |-> "none", vol |-> FALSE, tf |-> FALSE, results0 |-> "full",
          results1 |-> "full", undos |-> 0, ins |-> <<>>]

\* the part of update_model's result kept in upd: results0 and results1 are
\* the calculator cache before and after the call, undos counts the
\* undo_update calls made since
Seen(u) == [called |-> u.called, err |-> u.err, size1 |-> u.size1, size2 |-> u.size2,
            ran |-> u.ran, vol |-> u.vol, tf |-> u.tf, results0 |-> u.results0,
            results1 |-> u.m.results, undos |-> 0, ins |-> u.ins]

\* ---------------------------------------------------------- undo_update
\* while d > 0: self.model.pop_1data(); popping an empty list raises
RECURSIVE popData(_, _)
popData(m, d) ==
    IF d <= 0 THEN m
    ELSE IF Len(m.data) = 0 THEN Ev([m EXCEPT !.err = "index"], "raise", step)
    ELSE popData(pop_1data(m), d - 1)

\* while i > 0: self.model.pop_1inducing()
RECURSIVE popInducing(_, _)
popInducing(m, i) ==
    IF i <= 0 THEN m
    ELSE IF Len(m.X) = 0 THEN Ev([m EXCEPT !.err = "index"], "raise", step)
    ELSE popInducing(pop_1inducing(m), i - 1)

\* mutant of undo_update: the inducing points are popped before the structures
undo_update_InducingFirst(m) ==
    LET m1 == popInducing(m, ref_plus)
    IN  IF m1.err # "none" THEN m1 ELSE popData(m1, data_plus)

\* mutant of undo_update: the inducing points are left in place
undo_update_DataOnly(m) == popData(m, data_plus)

\* Leapfrog.undo_update
undo_update(m) ==
    LET m1 == popData(m, data_plus)
    IN  IF m1.err # "none" THEN m1 ELSE popInducing(m1, ref_plus)

\* ------------------------------------------------------------ pair kernels
\* The classes of pair.py.  DistanceKernel and LogDistanceKernel are the
\* subclasses of PairSimilarityKernel, which only supply its descriptor.
Kernels == {"PairSimilarityKernel", "DistanceSimilarity", "LogDistanceSimilarity",
            "CoulombPairSimilarity", "RepulsiveCoreSimilarity"}

PairAtoms == 1..NAtomsPair
Dims == 1..NDim
\* components of a pair's direction (u, logd_deriv or the descriptor's grad)
UVals == {0 - 1, 2}
Vectors == [Dims -> UVals]
\* values of a kernel derivative, or of the bracket a Coulomb-like class forms
\* from it
KVals == (0 - 1)..MaxK

VecAdd(a, b) == [k \in Dims |-> a[k] + b[k]]
VecNeg(a) == [k \in Dims |-> 0 - a[k]]
VecScale(x, a) == [k \in Dims |-> x * a[k]]
ZeroVec == [k \in Dims |-> 0]

\* the one-way selections select(a, b, bothways=False) can give: each selected
\* pair has its two atoms i, j and its direction u
Structures ==
    UNION {[i : [1..n -> PairAtoms], j : [1..n -> PairAtoms], u : [1..n -> Vectors]]
              : n \in 0..MaxPairs}

OneWay(s) == \A a \in 1..Len(s.i) : s.i[a] # s.j[a]

\* zeros(natoms, 3)
zeros == [a \in PairAtoms |-> ZeroVec]

\* Tensor.index_add(0, index, source): row k of source is added to row index[k]
RECURSIVE index_add(_, _, _)
index_add(g, index, source) ==
    IF Len(index) = 0 THEN g
    ELSE LET h == index_add(g, ButLast(index), ButLast(source))
             k == Len(index)
         IN  [h EXCEPT ![index[k]] = VecAdd(@, source[k])]

\* the sum of M[a][b] over b in 1..n: .sum(dim=-1) of leftgrad
RECURSIVE rowSum(_, _, _)
rowSum(M, a, n) == IF n = 0 THEN 0 ELSE rowSum(M, a, n - 1) + M[a][n]

\* the sum of M[b][a] over b in 1..n: .sum(dim=0) of rightgrad
RECURSIVE colSum(_, _, _)
colSum(M, a, n) == IF n = 0 THEN 0 ELSE colSum(M, a, n - 1) + M[n][a]

\* c: each pair's coefficient times its direction
contributions(s, coef) == [a \in 1..Len(s.i) |-> VecScale(coef[a], s.u[a])]

\* mutant of calculate: the second endpoint gets the same gradient as the first
calculate_SameSign(s) ==
    [grad |-> [a \in 1..Len(s.i) |-> <<s.u[a], s.u[a]>>],
     indices |-> [a \in 1..Len(s.i) |-> <<s.j[a], s.i[a]>>]]

\* PairSimilarityKernel.calculate: grad = stack([grad, -grad], dim=-1),
\* indices = stack([loc.j, loc.i], dim=-1)
calculate(s) ==
    [grad |-> [a \in 1..Len(s.i) |-> <<s.u[a], VecNeg(s.u[a])>>],
     indices |-> [a \in 1..Len(s.i) |-> <<s.j[a], s.i[a]>>]]

\* .view(-1) of an (n, 2) tensor, and .permute(0, 2, 1).view(-1, 3) of an
\* (n, 3, 2) one: the two entries of pair 1, then those of pair 2, ...
flatten(x) == [k \in 1..(2 * Len(x)) |-> x[(k + 1) \div 2][IF k % 2 = 1 THEN 1 ELSE 2]]

\* PairSimilarityKernel.leftgrad / rightgrad on the saved grad and indices
pairKernelGrad(s, coef) ==
    LET saved == calculate(s)
        c == [a \in 1..Len(s.i) |->
                <<VecScale(coef[a], saved.grad[a][1]), VecScale(coef[a], saved.grad[a][2])>>]
    IN  index_add(zeros, flatten(saved.indices), flatten(c))

negated(c) == [a \in 1..Len(c) |-> VecNeg(c[a])]

\* DistanceSimilarity and LogDistanceSimilarity:
\* zeros(natoms, 3).index_add(0, i, -c).index_add(0, j, c)
distanceGrad(s, coef) ==
    LET c == contributions(s, coef)
    IN  index_add(index_add(zeros, s.i, negated(c)), s.j, c)

\* CoulombPairSimilarity and RepulsiveCoreSimilarity:
\* -zeros(natoms, 3).index_add(0, i, c).index_add(0, j, -c)
coulombGrad(s, coef) ==
    LET c == contributions(s, coef)
        g == index_add(index_add(zeros, s.i, c), s.j, negated(c))
    IN  [a \in PairAtoms |-> VecNeg(g[a])]

\* the gradient a class scatters from the coefficients of the pairs
gradOf(k, s, coef) ==
    CASE k = "PairSimilarityKernel" -> pairKernelGrad(s, coef)
      [] k \in {"DistanceSimilarity", "LogDistanceSimilarity"} -> distanceGrad(s, coef)
      [] k \in {"CoulombPairSimilarity", "RepulsiveCoreSimilarity"} -> coulombGrad(s, coef)

\* no pair kernel is being evaluated
PairIdle ==
    /\ kernel = "PairSimilarityKernel"
    /\ pstruct = [i |-> <<>>, j |-> <<>>, u |-> <<>>]
    /\ pcontrib = <<>>
    /\ pgrad = zeros
    /\ pside = "none"

\* ------------------------------------------------------------ construction
\* what the constructor is called with: the algorithm's name, whether a model
\* is supplied, and the volatile argument (0 stands for the default None).  A
\* controller built with no model is explored with the default algorithm and
\* the default volatile.
VolatileArgs == {0, 1}
Skips == {3}
SkipVolatiles == {2}
ConstructorArgs ==
    {c \in [algorithm : Algorithms, given : BOOLEAN, varg : VolatileArgs,
            skip : Skips, skip_volatile : SkipVolatiles] :
        c.given \/ (c.algorithm = "fast" /\ c.varg = 0)}

\* self._volatile = volatile if volatile else 2 if model is None else -1
initVolatile(varg, given) ==
    IF varg # 0 THEN varg ELSE IF ~given THEN VolatileNoModel ELSE VolatileWithModel

\* initial_model's inducing set: the first atom of each type, then every other
\* environment the model accepts; a supplied model brings its own
InitialX == {<<"loc">>}

\* Leapfrog.__init__: with no model the constructor takes a real snapshot at
\* step 0 and builds the initial model from it
Construct(c) ==
    /\ algorithm = c.algorithm
    /\ volatile_thr = initVolatile(c.varg, c.given)
    /\ fp = (IF c.given THEN <<>> ELSE <<0>>)
    /\ fp_e = (IF c.given THEN <<>> ELSE <<"exact">>)
    /\ skip = c.skip
    /\ skip_volatile = c.skip_volatile
    /\ step = 0
    /\ energy \in {<<e>> : e \in Energies}
    /\ temperature = <<0>>
    /\ ext = <<>>
    /\ data = <<"real">>
    /\ X \in InitialX
    /\ data_plus = 0
    /\ ref_plus = 0
    /\ plus_set = FALSE
    /\ results = "full"
    /\ pc = "idle"
    /\ prob = 0
    /\ remaining = 0
    /\ maxupdates = 0
    /\ updates = 0
    /\ growths = 0
    /\ outcome = "none"
    /\ lastcall = "init"
    /\ dec = NoDec
    /\ upd = NoUpd
    /\ trace = <<>>
    /\ direct = 0

Init == (\E c \in ConstructorArgs : Construct(c)) /\ PairIdle

\* ------------------------------------------------------------ the drivers
\* the model state m becomes the controller's
Install(m) ==
    /\ data' = m.data
    /\ X' = m.X
    /\ fp' = m.fp
    /\ fp_e' = m.fp_e

\* self.data_plus, self.ref_plus after an update_model that returned
SetPlus(u) ==
    /\ data_plus' = u.size2[1] - u.size1[1]
    /\ ref_plus' = u.size2[2] - u.size1[2]
    /\ plus_set' = TRUE

\* mutant of Advance: the temperature is not recorded
Advance_NoTemperature(e) ==
    /\ step' = step + 1
    /\ energy' = Append(energy, e)
    /\ temperature' = temperature
    /\ results' = "full"

\* self.dyn.run(1); self.step += 1; self.energy += [...]; self.temperature += [...]
Advance(e) ==
    /\ step' = step + 1
    /\ energy' = Append(energy, e)
    /\ temperature' = Append(temperature, 0)
    /\ results' = "full"

\* mutant of Before: 'updating ...' is logged whether or not doit returned True
Before_AlwaysUpdating(d, go) ==
    (IF d.called /\ d.flagged THEN <<<<"log_extremum", step>>>> ELSE <<>>)
        \o <<<<"log_updating", step>>>>

\* the events doit and the driver log before update_model starts
Before(d, go) ==
    (IF d.called /\ d.flagged THEN <<<<"log_extremum", step>>>> ELSE <<>>)
        \o (IF go THEN <<<<"log_updating", step>>>> ELSE <<>>)

\* the decision of one loop iteration: doit is not called when prob is 0
Decide(coin) == IF prob > 0 THEN doit(prob, coin) ELSE NoDec

\* run(maxsteps, prob): a call with maxsteps = 0 returns at once
CallRun(n, p) ==
    /\ pc = "idle"
    /\ lastcall' = "run"
    /\ dec' = NoDec /\ upd' = NoUpd /\ trace' = <<>>
    /\ prob' = p
    /\ remaining' = n
    /\ growths' = 0
    /\ IF n = 0
       THEN pc' = "idle" /\ outcome' = "returned"
       ELSE pc' = "run" /\ outcome' = "none"
    /\ UNCHANGED <<cfgvars, step, energy, temperature, fp, fp_e, ext, data, X, data_plus,
                   ref_plus, plus_set, results, maxupdates, updates, direct>>

\* what ends an iteration of run's for loop
RunNext ==
    /\ remaining' = remaining - 1
    /\ IF remaining = 1
       THEN pc' = "idle" /\ outcome' = "returned"
       ELSE pc' = "run" /\ outcome' = "none"

\* an iteration of run in which no update is made
RunSkip(h) ==
    /\ pc = "run" /\ remaining > 0 /\ step < h
    /\ \E coin \in Bernoulli(prob), e \in Energies :
          LET d == Decide(coin)
          IN  /\ ~d.res
              /\ ext' = (IF d.called THEN d.ext ELSE ext)
              /\ dec' = d
              /\ trace' = Before(d, FALSE)
              /\ Advance(e)
    /\ upd' = NoUpd
    /\ RunNext
    /\ lastcall' = "run"
    /\ UNCHANGED <<cfgvars, fp, fp_e, data, X, data_plus, ref_plus, plus_set, prob,
                   maxupdates, updates, growths, direct>>

\* an iteration of run in which doit returned True: update_model is called, and
\* an exception of the reference calculator leaves run
RunUpdate(h) ==
    /\ pc = "run" /\ remaining > 0 /\ step < h
    /\ prob > 0
    /\ \E coin \in Bernoulli(prob) :
       LET d == doit(prob, coin) IN
       /\ d.res
       /\ \E u \in Updates(Now(Before(d, TRUE)), d.ext), e \in Energies :
              /\ ext' = d.ext
              /\ dec' = d
              /\ upd' = Seen(u)
              /\ Install(u.m)
              /\ IF u.err # "none"
                 THEN /\ trace' = u.m.tr
                      /\ results' = u.m.results
                      /\ pc' = "aborted" /\ outcome' = "error"
                      /\ UNCHANGED <<step, energy, temperature, data_plus, ref_plus,
                                     plus_set, remaining, growths>>
                 ELSE /\ trace' = Append(u.m.tr, <<"log_update", IF u.tf THEN 1 ELSE 0>>)
                      /\ SetPlus(u)
                      /\ growths' = growths + (IF u.tf THEN 1 ELSE 0)
                      /\ Advance(e)
                      /\ RunNext
    /\ lastcall' = "run"
    /\ UNCHANGED <<cfgvars, prob, maxupdates, updates, direct>>

\* mutant of stepsPerUpdate: the division is guarded against updates = 0
stepsPerUpdate_Guarded(u) == "returned"

\* mutant of countUpdate: only an update_model that returned True is counted
countUpdate_GrowthOnly(u, tf) == u + (IF tf THEN 1 ELSE 0)

\* updates += 1, which follows the update_model call and ignores its result tf
countUpdate(u, tf) == u + 1

\* steps_per_update = steps / updates, and the return that follows it: the
\* division raises when updates is 0
stepsPerUpdate(u) == IF u = 0 THEN "error" ELSE "returned"

\* run_updates(maxupdates, prob): with maxupdates = 0 the while loop is not
\* entered and steps / updates divides by zero
CallRunUpdates(n, p) ==
    /\ pc = "idle"
    /\ lastcall' = "run_updates"
    /\ dec' = NoDec /\ upd' = NoUpd /\ trace' = <<>>
    /\ prob' = p
    /\ maxupdates' = n
    /\ updates' = 0
    /\ growths' = 0
    /\ IF 0 < n
       THEN pc' = "run_updates" /\ outcome' = "none"
       ELSE pc' = "idle" /\ outcome' = stepsPerUpdate(0)
    /\ UNCHANGED <<cfgvars, step, energy, temperature, fp, fp_e, ext, data, X, data_plus,
                   ref_plus, plus_set, results, remaining, direct>>

\* what ends an iteration of run_updates' while loop with u updates counted:
\* the loop is left once updates < maxupdates fails, and the averages are
\* returned (updates > 0 then)
RunUpdatesNext(u) ==
    /\ updates' = u
    /\ IF u < maxupdates
       THEN pc' = "run_updates" /\ outcome' = "none"
       ELSE pc' = "idle" /\ outcome' = stepsPerUpdate(u)

\* an iteration of run_updates in which no update is made
RunUpdatesSkip(h) ==
    /\ pc = "run_updates" /\ updates < maxupdates /\ step < h
    /\ \E coin \in Bernoulli(prob), e \in Energies :
          LET d == Decide(coin)
          IN  /\ ~d.res
              /\ ext' = (IF d.called THEN d.ext ELSE ext)
              /\ dec' = d
              /\ trace' = Before(d, FALSE)
              /\ Advance(e)
    /\ upd' = NoUpd
    /\ RunUpdatesNext(updates)
    /\ lastcall' = "run_updates"
    /\ UNCHANGED <<cfgvars, fp, fp_e, data, X, data_plus, ref_plus, plus_set, prob,
                   remaining, maxupdates, growths, direct>>

\* an iteration of run_updates in which doit returned True: updates += 1 follows
\* the update_model call whatever it returned
RunUpdatesUpdate(h) ==
    /\ pc = "run_updates" /\ updates < maxupdates /\ step < h
    /\ prob > 0
    /\ \E coin \in Bernoulli(prob) :
       LET d == doit(prob, coin) IN
       /\ d.res
       /\ \E u \in Updates(Now(Before(d, TRUE)), d.ext), e \in Energies :
              /\ ext' = d.ext
              /\ dec' = d
              /\ upd' = Seen(u)
              /\ Install(u.m)
              /\ IF u.err # "none"
                 THEN /\ trace' = u.m.tr
                      /\ results' = u.m.results
                      /\ pc' = "aborted" /\ outcome' = "error"
                      /\ UNCHANGED <<step, energy, temperature, data_plus, ref_plus,
                                     plus_set, updates, growths>>
                 ELSE /\ trace' = Append(u.m.tr, <<"log_update", IF u.tf THEN 1 ELSE 0>>)
                      /\ SetPlus(u)
                      /\ growths' = growths + (IF u.tf THEN 1 ELSE 0)
                      /\ Advance(e)
                      /\ RunUpdatesNext(countUpdate(updates, u.tf))
    /\ lastcall' = "run_updates"
    /\ UNCHANGED <<cfgvars, prob, remaining, maxupdates, direct>>

\* ------------------------------------------------------- direct calls
\* update_model() called by the client between driver calls
DirectUpdate ==
    /\ pc = "idle" /\ direct < MaxDirect
    /\ direct' = direct + 1
    /\ \E u \in Updates(Now(<<>>), ext) :
              /\ upd' = Seen(u)
              /\ Install(u.m)
              /\ trace' = u.m.tr
              /\ results' = u.m.results
              /\ IF u.err # "none"
                 THEN /\ pc' = "aborted" /\ outcome' = "error"
                      /\ UNCHANGED <<data_plus, ref_plus, plus_set>>
                 ELSE /\ pc' = "idle" /\ outcome' = "returned"
                      /\ SetPlus(u)
    /\ dec' = NoDec
    /\ lastcall' = "update_model"
    /\ UNCHANGED <<cfgvars, step, energy, temperature, ext, prob, remaining,
                   maxupdates, updates, growths>>

\* undo_update() called by the client; before the first update_model the
\* attributes data_plus and ref_plus do not exist and reading them raises
DirectUndo ==
    /\ pc = "idle" /\ direct < MaxDirect
    /\ direct' = direct + 1
    /\ IF ~plus_set
       THEN /\ outcome' = "error"
            /\ trace' = <<<<"raise", step>>>>
            /\ UNCHANGED <<data, X>>
       ELSE LET m == undo_update(Now(<<>>))
            IN  /\ data' = m.data
                /\ X' = m.X
                /\ trace' = m.tr
                /\ outcome' = (IF m.err # "none" THEN "error" ELSE "returned")
    /\ upd' = [upd EXCEPT !.undos = @ + 1]
    /\ dec' = NoDec
    /\ lastcall' = "undo_update"
    /\ UNCHANGED <<cfgvars, step, energy, temperature, fp, fp_e, ext, data_plus, ref_plus,
                   plus_set, results, pc, prob, remaining, maxupdates, updates,
                   growths>>

\* doit(prob) called by the client
DirectDoit(p) ==
    /\ pc = "idle" /\ direct < MaxDirect
    /\ direct' = direct + 1
    /\ \E coin \in Bernoulli(p) :
          LET d == doit(p, coin)
          IN  /\ ext' = d.ext
              /\ dec' = d
              /\ trace' = Before(d, FALSE)
    /\ upd' = NoUpd
    /\ outcome' = "returned"
    /\ lastcall' = "doit"
    /\ UNCHANGED <<cfgvars, step, energy, temperature, fp, fp_e, data, X, data_plus,
                   ref_plus, plus_set, results, pc, prob, remaining, maxupdates, updates,
                   growths>>

\* ------------------------------------------------------- specifications
\* the driver loops only: doit is called once per step
NextRun ==
    \/ \E n \in 0..MaxRun, p \in Probs : CallRun(n, p)
    \/ RunSkip(MaxStep)
    \/ RunUpdate(MaxStep)
    \/ \E n \in 0..MaxRun, p \in Probs : CallRunUpdates(n, p)
    \/ RunUpdatesSkip(MaxStep)
    \/ RunUpdatesUpdate(MaxStep)

SpecRun == Init /\ [][NextRun]_vars

\* the client's direct calls of the public methods, between single steps of
\* the simulation made with run(1)
Next ==
    \/ CallRun(1, 100)
    \/ RunSkip(MaxStepApi)
    \/ RunUpdate(MaxStepApi)
    \/ DirectUpdate
    \/ DirectUndo
    \/ \E p \in Probs : DirectDoit(p)

Spec == Init /\ [][Next]_vars

\* the end-to-end scenario: a controller built with no model and the defaults
\* (algorithm 'fast', volatile None, skip_volatile 3), driven by run with prob 1
InitE2E ==
    /\ \E s \in Skips :
          Construct([algorithm |-> "fast", given |-> FALSE, varg |-> 0, skip |-> s,
                     skip_volatile |-> SkipVolatileDefault])
    /\ PairIdle

NextE2E ==
    \/ \E n \in 1..MaxRun : CallRun(n, 100)
    \/ RunSkip(MaxStepE2E)
    \/ RunUpdate(MaxStepE2E)

SpecE2E == InitE2E /\ [][NextE2E]_vars

\* a pair kernel of some class, holding a structure's one-way selection, with
\* no gradient taken yet; the controller is not involved
InitPair ==
    /\ Construct([algorithm |-> "fast", given |-> TRUE, varg |-> 0, skip |-> 3,
                  skip_volatile |-> SkipVolatileDefault])
    /\ energy = <<1>>
    /\ kernel \in Kernels
    /\ pstruct \in {s \in Structures : OneWay(s)}
    /\ pcontrib = <<>>
    /\ pgrad = zeros
    /\ pside = "none"

\* leftgrad(p, q) with p the structure held: the kernel derivative M[a][b] of
\* each pair a of p and pair b of q is summed over q's pairs, and the
\* contributions are scattered to p's atoms
Leftgrad ==
    /\ pside = "none"
    /\ \E n \in 1..MaxOther :
       \E M \in [1..Len(pstruct.i) -> [1..n -> KVals]] :
          LET coef == [a \in 1..Len(pstruct.i) |-> rowSum(M, a, n)]
          IN  /\ pcontrib' = contributions(pstruct, coef)
              /\ pgrad' = gradOf(kernel, pstruct, coef)
    /\ pside' = "left"
    /\ UNCHANGED <<leapfrogvars, kernel, pstruct>>

\* rightgrad(p, q) with q the structure held: M[b][a] is summed over p's pairs b
Rightgrad ==
    /\ pside = "none"
    /\ \E n \in 1..MaxOther :
       \E M \in [1..n -> [1..Len(pstruct.i) -> KVals]] :
          LET coef == [a \in 1..Len(pstruct.i) |-> colSum(M, a, n)]
          IN  /\ pcontrib' = contributions(pstruct, coef)
              /\ pgrad' = gradOf(kernel, pstruct, coef)
    /\ pside' = "right"
    /\ UNCHANGED <<leapfrogvars, kernel, pstruct>>

NextPair == Leftgrad \/ Rightgrad

SpecPair == InitPair /\ [][NextPair]_vars

\* ------------------------------------------------------------- properties
\* the number of events called name in a list of events
RECURSIVE Count(_, _)
Count(tr, name) ==
    IF tr = <<>> THEN 0
    ELSE (IF tr[1][1] = name THEN 1 ELSE 0) + Count(Tail(tr), name)

\* C1: undo_update is a left inverse of update_model on the sizes: when one
\* undo_update follows an update_model that returned (any algorithm), with no
\* other change of the model in between, undo_update returns, the sizes are
\* again those before the update, and it made exactly one pop per entry added.
C1_UndoRestoresSizes ==
    (lastcall = "undo_update" /\ upd.called /\ upd.err = "none" /\ upd.undos = 1)
        => /\ outcome = "returned"
           /\ sizes = upd.size1
           /\ Count(trace, "pop_data") = upd.size2[1] - upd.size1[1]
           /\ Count(trace, "pop_ind") = upd.size2[2] - upd.size1[2]

\* C1 witness: an undo after an update of a configured (non-robust) algorithm
\* that had added a structure and an inducing point
C1_Witness ==
    /\ lastcall = "undo_update" /\ upd.called /\ upd.err = "none" /\ upd.undos = 1
    /\ upd.ran = "ultrafast"
    /\ upd.size2[1] > upd.size1[1] /\ upd.size2[2] > upd.size1[2]
    /\ sizes = upd.size1

\* C2: extremum suppression.  Every step recorded in ext_steps has at least
\* three energies behind it with d1*d2 < 0, no two successive entries of
\* ext_steps are consecutive steps, and with energies 1,2,1,2 at steps 0..3
\* a decision at step 2 flags it while a decision at step 3, step 2 being
\* recorded, does not.
C2_ExtremumSuppression ==
    /\ \A i \in 1..Len(ext) :
          /\ ext[i] >= 2
          /\ ext[i] + 1 <= Len(energy)
          /\ (energy[ext[i] + 1] - energy[ext[i]])
                * (energy[ext[i]] - energy[ext[i] - 1]) < 0
    /\ \A i \in 1..(Len(ext) - 1) : ext[i + 1] - ext[i] > 1
    /\ (dec.called /\ dec.step = 2 /\ SubSeq(energy, 1, 3) = <<1, 2, 1>>)
          => (dec.flagged /\ Last(ext) = 2)
    /\ (dec.called /\ dec.step = 3 /\ SubSeq(energy, 1, 4) = <<1, 2, 1, 2>>
            /\ Len(ext) > 0 /\ ext[1] = 2)
          => (~dec.flagged /\ ext = <<2>>)

\* C2 witness: energies 1,2,1,2, step 2 recorded, the decision at step 3 made
\* and not flagged
C2_Witness ==
    /\ dec.called /\ dec.step = 3 /\ ~dec.flagged
    /\ SubSeq(energy, 1, 4) = <<1, 2, 1, 2>>
    /\ ext = <<2>>

\* C3: volatility is derived from ext_steps on demand: volatile() is true
\* exactly when len(ext_steps) <= volatility_threshold, also in what doit and
\* update_model saw of it; with threshold 2 it is true with 0, 1 or 2 recorded
\* extrema and false with 3.
C3_VolatileDerived ==
    /\ volatile <=> (Len(ext) <= volatile_thr)
    /\ dec.called => (dec.vol <=> (Len(ext) <= volatile_thr))
    /\ upd.called => (upd.vol <=> (Len(ext) <= volatile_thr))
    /\ volatile_thr = 2 =>
          /\ Len(ext) \in {0, 1, 2} => volatile
          /\ Len(ext) = 3 => ~volatile

\* C3 witness: threshold 2, the third extremum just recorded by a decision
\* that saw the controller not volatile
C3_Witness ==
    /\ volatile_thr = 2 /\ Len(ext) = 3 /\ ~volatile
    /\ dec.called /\ dec.flagged /\ ~dec.vol

\* C4 as claimed: a controller built with no model forces an update at the
\* decision of step 0.
C4_Original == (dec.called /\ dec.step = 0) => dec.res

\* C4: a controller built with no model (threshold 2, FAST, skip_volatile 3)
\* has made the reference evaluation of step 0 in its constructor, so the
\* decision at step 0 returns false; a decision returns true only if an
\* extremum is flagged at that step or more than 3 steps have passed since the
\* last reference evaluation.
C4_StartUp ==
    /\ (lastcall = "init") => (fp = <<0>> /\ step = 0 /\ volatile)
    /\ dec.called =>
          /\ dec.step = 0 => ~dec.res
          /\ dec.res => (dec.flagged \/ dec.step - dec.last > SkipVolatileDefault)
          /\ (~dec.flagged /\ dec.vol /\ dec.step - dec.last > SkipVolatileDefault) => dec.res

\* C4 witness: an update forced at step 4 with no extremum, the last reference
\* evaluation being the constructor's at step 0
C4_Witness ==
    /\ dec.called /\ dec.res /\ ~dec.flagged
    /\ dec.step = 4 /\ dec.last = 0
    /\ upd.called /\ upd.ran = "robust"

\* C5: the extremum branch of doit.  A call that flags the current step appends
\* it to ext_steps; the result is then false if the controller is not volatile
\* with the step appended and step - last_fp_step < skip (last_fp_step = 0 with
\* no reference evaluation), and otherwise the draw: true for probability 1,
\* false for probability 0.
C5_ExtremumBranch ==
    [][(dec'.called /\ dec'.flagged) =>
          /\ dec'.ext = Append(ext, step)
          /\ ext' = Append(ext, step)
          /\ LET last == IF Len(fp) = 0 THEN 0 ELSE fp[Len(fp)]
             IN  IF ~(Len(ext) + 1 <= volatile_thr) /\ step - last < skip
                 THEN ~dec'.res
                 ELSE /\ dec'.prob = 100 => dec'.res
                      /\ dec'.prob = 0 => ~dec'.res]_vars

\* C5 witness: a flagged step whose append ends volatility, with a reference
\* evaluation closer than skip: doit(prob=1) returned false
C5_Witness ==
    /\ dec.called /\ dec.flagged /\ ~dec.res /\ dec.prob = 100
    /\ Len(ext) = volatile_thr + 1
    /\ dec.step - dec.last < skip

\* C6: the other branch of doit.  A call that flags no extremum leaves
\* ext_steps alone and returns true exactly when the controller is volatile and
\* either step = 0 with no reference evaluation recorded or
\* step - last_fp_step > skip_volatile, whatever the probability.
C6_PlainBranch ==
    [][(dec'.called /\ ~dec'.flagged) =>
          /\ ext' = ext
          /\ LET last == IF Len(fp) = 0 THEN 0 ELSE fp[Len(fp)]
             IN  dec'.res <=>
                    /\ Len(ext) <= volatile_thr
                    /\ \/ step = 0 /\ Len(fp) = 0
                       \/ step - last > skip_volatile]_vars

\* C6 witness: doit(prob=0) at step 0 of a volatile controller with no
\* reference evaluation returned true
C6_Witness ==
    /\ dec.called /\ ~dec.flagged /\ dec.res
    /\ dec.prob = 0 /\ dec.step = 0 /\ fp = <<>>

\* the events of a list that an algorithm, not the driver's log, produced
IsAlgEvent(ev) ==
    ev[1] \in {"fp", "raise", "fake", "data_acc", "data_rej", "ind_acc", "ind_rej",
               "pop_data", "log_break"}

AlgEvents(tr) == SelectSeq(tr, IsAlgEvent)

\* a run of ROBUST: the reference evaluation first, then one add_1atoms
\* attempt, then one add_1inducing attempt per local environment, in order
RobustRun(a) ==
    /\ Len(a) >= 1
    /\ a[1][1] \in {"fp", "raise"}
    /\ a[1][1] = "fp" =>
          /\ Len(a) = NAtoms + 2
          /\ a[2][1] \in {"data_acc", "data_rej"}
          /\ \A k \in Locs : a[k + 2][1] \in {"ind_acc", "ind_rej"} /\ a[k + 2][2] = k

\* C7 as stated: a volatile call runs ROBUST; a call that is not volatile runs
\* the configured algorithm and never ROBUST.
C7_Original ==
    (upd.called /\ upd.undos = 0) =>
        /\ upd.vol => upd.ran = "robust"
        /\ ~upd.vol => (upd.ran = algorithm /\ upd.ran # "robust")

\* C7, amended: algorithm selection in update_model.  A call made while the
\* controller is volatile runs ROBUST whatever algorithm is configured: a
\* reference evaluation, then the structure and every local environment offered
\* to the model, none of it conditional on another's outcome.  A call made
\* while it is not volatile runs exactly the configured algorithm, which is
\* ROBUST only when 'robust' is itself the algorithm configured; any other
\* configured algorithm starts by offering an environment, not by a reference
\* evaluation.
C7_AlgorithmSelection ==
    (upd.called /\ upd.undos = 0) =>
        /\ upd.vol <=> (Len(ext) <= volatile_thr)
        /\ upd.vol => (upd.ran = "robust" /\ RobustRun(AlgEvents(trace)))
        /\ ~upd.vol =>
              /\ upd.ran = algorithm
              /\ algorithm = "robust" => RobustRun(AlgEvents(trace))
              /\ algorithm # "robust" =>
                    AlgEvents(trace)[1][1] \in {"ind_acc", "ind_rej"}

\* C7 witness: a volatile controller configured with ULTRAFAST ran ROBUST and
\* grew both lists
C7_Witness ==
    /\ upd.called /\ upd.undos = 0 /\ upd.err = "none"
    /\ upd.vol /\ algorithm = "ultrafast" /\ upd.ran = "robust"
    /\ upd.size2[1] > upd.size1[1] /\ upd.size2[2] > upd.size1[2]

\* C8: update_model returns true exactly when the data count or the inducing
\* count grew; the calculator's cached results are cleared exactly then; and a
\* call in which no inducing point is added and no reference evaluation is made
\* leaves the sizes and the cache as they were and returns false.
C8_ChangedAndCache ==
    (upd.called /\ upd.err = "none" /\ upd.undos = 0) =>
        /\ sizes = upd.size2
        /\ upd.tf <=> (upd.size2[1] > upd.size1[1] \/ upd.size2[2] > upd.size1[2])
        /\ Count(trace, "clear") = (IF upd.tf THEN 1 ELSE 0)
        /\ upd.tf => upd.results1 = "empty"
        /\ ~upd.tf => upd.results1 = upd.results0
        /\ lastcall = "update_model" => results = upd.results1
        /\ (Count(trace, "ind_acc") = 0 /\ Count(trace, "fp") = 0) =>
              (upd.size2 = upd.size1 /\ ~upd.tf /\ upd.results1 = upd.results0)

\* C8 witness: a direct update_model that added nothing and evaluated nothing,
\* returned false and left a full cache full
C8_Witness ==
    /\ lastcall = "update_model" /\ upd.called /\ upd.err = "none" /\ upd.undos = 0
    /\ Count(trace, "ind_acc") = 0 /\ Count(trace, "fp") = 0
    /\ ~upd.tf /\ upd.results0 = "full" /\ results = "full"

\* C9 as stated: run_updates(n), n >= 1, returns after exactly n update_model
\* invocations that grew the model
C9_Original ==
    (lastcall = "run_updates" /\ pc = "idle" /\ outcome = "returned" /\ maxupdates >= 1) =>
        growths = maxupdates

\* an iteration of run_updates that completed an update_model invocation
UpdateInvoked == upd'.called /\ upd'.err = "none"

\* C9, amended: run_updates(n), n >= 1, returns only after exactly n
\* update_model invocations have completed during the call, whether or not they
\* grew the model: every completed invocation raises the count by one, an
\* iteration without one leaves it, the loop goes on while the count is below n,
\* and the number of growths is at most n.
C9_UpdatesCounted ==
    /\ [](lastcall = "run_updates" =>
            /\ growths <= updates /\ updates <= maxupdates
            /\ pc = "run_updates" => updates < maxupdates
            /\ (pc = "idle" /\ outcome = "returned") =>
                  (maxupdates >= 1 /\ updates = maxupdates))
    /\ [][(pc = "run_updates" /\ lastcall' = "run_updates") =>
            /\ updates' = updates + (IF UpdateInvoked THEN 1 ELSE 0)
            /\ growths' = growths + (IF UpdateInvoked /\ upd'.tf THEN 1 ELSE 0)]_vars

\* C9 witness: run_updates(2) returned after two invocations of which fewer
\* than two grew the model
C9_Witness ==
    /\ lastcall = "run_updates" /\ pc = "idle" /\ outcome = "returned"
    /\ maxupdates = 2 /\ updates = 2 /\ growths < 2

\* a call of run or run_updates with a zero count
ZeroCall ==
    /\ pc = "idle"
    /\ \/ lastcall' = "run" /\ pc' = "idle" /\ remaining' = 0
       \/ lastcall' = "run_updates" /\ pc' = "idle" /\ maxupdates' = 0

\* C10 as stated: a zero count ends in an error and leaves the state unchanged
C10_Original ==
    [][ZeroCall =>
          /\ outcome' = "error"
          /\ UNCHANGED <<step, energy, temperature, data, X>>]_vars

\* C10, amended: run(0) returns normally without doing anything;
\* run_updates(0) ends in an error (the division steps / updates by zero); both
\* leave step, energy, temperature and the model unchanged.
C10_ZeroCount ==
    [][ZeroCall =>
          /\ lastcall' = "run" => outcome' = "returned"
          /\ lastcall' = "run_updates" => outcome' = "error"
          /\ UNCHANGED <<step, energy, temperature, data, X, fp, fp_e, ext, results>>]_vars

\* C10 witness: run(0) on a fresh controller has returned normally
C10_Witness ==
    /\ lastcall = "run" /\ pc = "idle" /\ outcome = "returned"
    /\ remaining = 0 /\ step = 0

\* the pops of a list of events, "d" for pop_1data and "i" for pop_1inducing
RECURSIVE Pops(_)
Pops(tr) ==
    IF Len(tr) = 0 THEN <<>>
    ELSE LET rest == Pops(ButLast(tr))
             ev == Last(tr)[1]
         IN  CASE ev = "pop_data" -> Append(rest, "d")
               [] ev = "pop_ind" -> Append(rest, "i")
               [] OTHER -> rest

Reverse(s) == [k \in 1..Len(s) |-> s[Len(s) + 1 - k]]

\* n copies of x
Copies(n, x) == [k \in 1..n |-> x]

\* an undo_update that returned, called right after an update_model that returned
UndoAfterUpdate ==
    /\ lastcall = "undo_update" /\ outcome = "returned"
    /\ upd.called /\ upd.err = "none" /\ upd.undos = 1

\* C11 as stated: undo_update removes the entries of the most recent
\* update_model in the exact reverse of their insertion order, for every
\* algorithm.
C11_Original == UndoAfterUpdate => Pops(trace) = Reverse(upd.ins)

\* C11, amended: undo_update first pops every structure the update added and
\* then every inducing point it added, each pop taking the last entry of its
\* list.  That is the reverse of the insertion order for FAST, FASTFAST and
\* ULTRAFAST, which insert inducing points first; after ROBUST, which
\* update_model runs with the structure inserted first, the structure is popped
\* before the inducing points.
C11_RollbackOrder ==
    UndoAfterUpdate =>
        LET nd == upd.size2[1] - upd.size1[1]
            ni == upd.size2[2] - upd.size1[2]
        IN  /\ Pops(trace) = Copies(nd, "d") \o Copies(ni, "i")
            /\ \A k \in 1..Len(trace) :
                  /\ (k <= nd) => trace[k] = <<"pop_data", upd.size2[1] + 1 - k>>
                  /\ (k > nd) => trace[k] = <<"pop_ind", upd.size2[2] + 1 - (k - nd)>>
            /\ upd.ran # "robust" =>
                  (upd.ins = Copies(ni, "i") \o Copies(nd, "d")
                      /\ Pops(trace) = Reverse(upd.ins))
            /\ upd.ran = "robust" => upd.ins = Copies(nd, "d") \o Copies(ni, "i")

\* C11 witness: ROBUST inserted a structure and then an inducing point, and the
\* undo popped the structure first
C11_Witness ==
    /\ UndoAfterUpdate /\ upd.ran = "robust"
    /\ upd.ins = <<"d", "i">>
    /\ Pops(trace) = <<"d", "i">>

\* C12: rollback misuse is surfaced.  An undo_update whose pending counts do
\* not belong to it (a second undo_update after a single update_model that
\* grew the model, or one before any update_model) ends in an error and pops
\* nothing.
C12_MisuseSurfaced ==
    (lastcall = "undo_update" /\ ((upd.undos >= 2 /\ upd.tf) \/ ~plus_set)) =>
        (outcome = "error" /\ Pops(trace) = <<>>)

\* an update_model call that the reference calculator's exception left
CalcFailed == upd.called /\ upd.err = "calc"

\* C13 as stated: when the reference calculator raises during update_model,
\* the error leaves the driver uncaught and the data count and the inducing
\* count are those before the call.
C13_Original ==
    CalcFailed => (outcome = "error" /\ sizes = upd.size1)

\* C13, amended: when the reference calculator raises during update_model the
\* error leaves the driver uncaught, nothing is recorded in fp_steps and the
\* data count is the one before the call (no fake-labelled structure is left).
\* Under ROBUST, which evaluates first, the inducing count is unchanged too;
\* under FAST, FASTFAST and ULTRAFAST the inducing points accepted before the
\* evaluation, at least one, stay in the model.
C13_FailureLeaves ==
    CalcFailed =>
        /\ outcome = "error" /\ pc = "aborted"
        /\ Last(trace)[1] = "raise" /\ Count(trace, "fp") = 0
        /\ sizes[1] = upd.size1[1]
        /\ \A k \in 1..Len(data) : data[k] # "fake"
        /\ sizes[2] = upd.size1[2] + Count(trace, "ind_acc")
        /\ upd.ran = "robust" => sizes = upd.size1
        /\ upd.ran # "robust" => sizes[2] > upd.size1[2]

\* C13 witness: under run, FAST accepted an inducing point and the reference
\* evaluation that followed raised
C13_Witness ==
    /\ CalcFailed /\ lastcall = "run" /\ upd.ran = "fast"
    /\ pc = "aborted" /\ sizes[2] = upd.size1[2] + 1

\* the state between iterations of run or run_updates
InDriver == lastcall \in {"run", "run_updates"}

\* C14: the log tells performed updates from skipped ones.  In run and
\* run_updates the events of an iteration hold an 'updating ...' entry, stamped
\* with the step of the decision, exactly when update_model was invoked in that
\* iteration, and that entry comes before every event of update_model (its
\* reference evaluation, insertions and pops).
C14_UpdatingLogged ==
    InDriver =>
        /\ Count(trace, "log_updating") = (IF upd.called THEN 1 ELSE 0)
        /\ ~upd.called => AlgEvents(trace) = <<>>
        /\ upd.called =>
              \E k \in 1..Len(trace) :
                  /\ trace[k] = <<"log_updating", dec.step>>
                  /\ \A j \in 1..Len(trace) : IsAlgEvent(trace[j]) => j > k
                  /\ \E j \in (k + 1)..Len(trace) : IsAlgEvent(trace[j])

\* C14 witness: an iteration of run_updates logged 'updating ...' and the
\* reference evaluation of that step came right after it
C14_Witness ==
    /\ lastcall = "run_updates" /\ upd.called
    /\ \E k \in 1..(Len(trace) - 1) :
          trace[k] = <<"log_updating", dec.step>> /\ trace[k + 1] = <<"fp", dec.step>>

\* the events of the update_model call just made, when it ran algorithm name
RunOf(name) == upd.called /\ upd.undos = 0 /\ upd.ran = name

\* C15: FAST defers the reference evaluation.  It offers every local
\* environment, in order, before any reference evaluation; it then makes a
\* reference evaluation, exactly one and followed (when it succeeds) by exactly
\* one add_1atoms attempt, exactly when at least one offer reached the
\* threshold; otherwise nothing is evaluated and the data count is unchanged.
C15_FastDefers ==
    RunOf("fast") =>
        LET a == AlgEvents(trace)
            n == Count(trace, "ind_acc")
        IN  /\ Len(a) >= NAtoms
            /\ \A k \in Locs : a[k] \in {<<"ind_acc", k>>, <<"ind_rej", k>>}
            /\ Count(trace, "fp") + Count(trace, "raise") = (IF n > 0 THEN 1 ELSE 0)
            /\ n = 0 => (Len(a) = NAtoms /\ upd.size2[1] = upd.size1[1])
            /\ n > 0 =>
                  /\ a[NAtoms + 1][1] \in {"fp", "raise"}
                  /\ a[NAtoms + 1][1] = "raise" => Len(a) = NAtoms + 1
                  /\ a[NAtoms + 1][1] = "fp" =>
                        (Len(a) = NAtoms + 2
                            /\ a[NAtoms + 2][1] \in {"data_acc", "data_rej"})

\* C15 witness: FAST had one offer declined and one accepted, then evaluated
\* and added the structure
C15_Witness ==
    /\ RunOf("fast")
    /\ Count(trace, "ind_rej") = 1 /\ Count(trace, "ind_acc") = 1
    /\ Count(trace, "fp") = 1 /\ Count(trace, "data_acc") = 1

\* the offers of environments to the model among a list of events, and the
\* ranking noted in it
IsOffer(ev) == ev[1] \in {"ind_acc", "ind_rej"}

IsRank(ev) == ev[1] = "rank"

\* C16: FASTFAST early exit.  The environments are offered in the order of the
\* leakage ranking and the scan stops at the first offer whose change is below
\* the threshold: the offered environments are a prefix of the ranking, every
\* offer but possibly the last met the threshold, a scan shorter than the
\* ranking ended on a declined offer, and a declined offer is the last one.
C16_FastFastEarlyExit ==
    RunOf("fastfast") =>
        LET offers == SelectSeq(trace, IsOffer)
            q == SelectSeq(trace, IsRank)
            n == Len(offers)
        IN  /\ Len(q) = NAtoms /\ {q[i][2] : i \in 1..NAtoms} = Locs
            /\ n >= 1 /\ n <= NAtoms
            /\ \A i \in 1..n : offers[i][2] = q[i][2]
            /\ \A i \in 1..(n - 1) : offers[i][1] = "ind_acc"
            /\ n < NAtoms => offers[n][1] = "ind_rej"
            /\ Count(trace, "ind_rej") = Count(trace, "log_break")
            /\ Count(trace, "ind_rej") <= 1

\* C16 witness: the environment ranked first was not the first of the
\* structure and was declined, and nothing else was offered
C16_Witness ==
    /\ RunOf("fastfast")
    /\ SelectSeq(trace, IsRank)[1] = <<"rank", 2>>
    /\ SelectSeq(trace, IsOffer) = <<<<"ind_rej", 2>>>>

\* C17: ULTRAFAST speculates and then confirms.  With no offer accepted nothing
\* more happens.  Otherwise the structure labelled by the surrogate is offered;
\* only if that raised the data count is the tentative entry popped and a real
\* reference evaluation made, after which the real structure is offered once.
\* When the call is over no structure labelled with fake energies is in the
\* data, the data count has grown by at most 1, and fp_steps has grown only by
\* that real evaluation.
C17_UltrafastConfirm ==
    RunOf("ultrafast") =>
        LET a == AlgEvents(trace)
            n == Count(trace, "ind_acc")
        IN  /\ \A k \in 1..Len(data) : data[k] # "fake"
            /\ Len(data) - upd.size1[1] \in {0, 1}
            /\ Count(trace, "fp") + Count(trace, "raise") <= 1
            /\ Count(trace, "fp") + Count(trace, "raise") = Count(trace, "pop_data")
            /\ n = 0 => (Count(trace, "fake") = 0 /\ Count(trace, "pop_data") = 0
                            /\ Len(data) = upd.size1[1])
            /\ n > 0 =>
                  \E k \in 1..(Len(a) - 1) :
                      /\ a[k][1] = "fake"
                      /\ \A j \in 1..(k - 1) : a[j][1] \in {"ind_acc", "ind_rej", "log_break"}
                      /\ a[k + 1][1] \in {"data_acc", "data_rej"}
                      /\ a[k + 1][1] = "data_rej" => Len(a) = k + 1
                      /\ a[k + 1][1] = "data_acc" =>
                            /\ Len(a) >= k + 3
                            /\ a[k + 2][1] = "pop_data"
                            /\ a[k + 3][1] \in {"fp", "raise"}
                            /\ a[k + 3][1] = "raise" => Len(a) = k + 3
                            /\ a[k + 3][1] = "fp" =>
                                  (Len(a) = k + 4
                                      /\ a[k + 4][1] \in {"data_acc", "data_rej"})

\* C17 witness: the tentative structure was kept, popped, evaluated for real
\* and added again; the data holds two real structures
C17_Witness ==
    /\ RunOf("ultrafast") /\ upd.err = "none"
    /\ Count(trace, "fake") = 1 /\ Count(trace, "pop_data") = 1
    /\ Count(trace, "fp") = 1 /\ Count(trace, "data_acc") = 2
    /\ data = <<"real", "real">>

\* C18: ROBUST makes exactly one reference evaluation, before it touches the
\* model; it then offers that structure once and every local environment
\* once, in order and with no early exit, whatever the earlier offers
\* returned; run from update_model, the structure is offered before the
\* environments.  When the evaluation raises, nothing has been offered.
C18_RobustShape ==
    RunOf("robust") =>
        LET a == AlgEvents(trace)
            offers == SelectSeq(trace, IsOffer)
        IN  /\ Count(trace, "fp") + Count(trace, "raise") = 1
            /\ a[1][1] \in {"fp", "raise"}
            /\ lastcall = "update_model" => a[1][2] = step
            /\ Count(trace, "fake") = 0 /\ Count(trace, "pop_data") = 0
            /\ Count(trace, "log_break") = 0
            /\ upd.err # "none" => (Len(a) = 1 /\ sizes = upd.size1)
            /\ upd.err = "none" =>
                  /\ Count(trace, "data_acc") + Count(trace, "data_rej") = 1
                  /\ a[2][1] \in {"data_acc", "data_rej"}
                  /\ Len(offers) = NAtoms
                  /\ \A k \in Locs : offers[k][2] = k
                  /\ Len(a) = NAtoms + 2

\* C18 witness: ROBUST went on to the second environment after the model had
\* declined the structure and the first environment
C18_Witness ==
    /\ RunOf("robust") /\ upd.err = "none"
    /\ Count(trace, "data_rej") = 1
    /\ SelectSeq(trace, IsOffer) = <<<<"ind_rej", 1>>, <<"ind_acc", 2>>>>

\* a step of the model that completes an iteration of run or run_updates
IterationDone == pc \in {"run", "run_updates"} /\ pc' # "aborted"

\* C19: trajectory bookkeeping under run and run_updates.  Between iterations
\* len(energy) = len(temperature) = step + 1, len(fp_steps) = len(fp_energies)
\* and every entry of ext_steps and fp_steps is at most step; a completed
\* iteration raises step by exactly 1 and appends one energy, and nothing else
\* changes step.
C19_Bookkeeping ==
    /\ [](/\ Len(energy) = step + 1
          /\ Len(temperature) = step + 1
          /\ Len(fp) = Len(fp_e)
          /\ \A k \in 1..Len(ext) : ext[k] <= step
          /\ \A k \in 1..Len(fp) : fp[k] <= step)
    /\ [][/\ IterationDone =>
               (step' = step + 1 /\ SubSeq(energy', 1, Len(energy)) = energy)
          /\ ~IterationDone => (step' = step /\ energy' = energy)]_vars

\* C19 witness: three iterations were made, with an extremum recorded and a
\* reference evaluation made on the way
C19_Witness ==
    /\ InDriver /\ step = 3 /\ Len(energy) = 4 /\ Len(temperature) = 4
    /\ Len(ext) >= 1 /\ Len(fp) >= 2

\* the sum of f over the set S
RECURSIVE SumOver(_, _)
SumOver(f, S) ==
    IF S = {} THEN 0
    ELSE LET x == CHOOSE y \in S : TRUE IN f[x] + SumOver(f, S \ {x})

\* C20: opposite-sign scatter.  Whatever the class of the pair kernel and the
\* one-way selection, the gradient leftgrad or rightgrad returns holds each
\* pair's contribution c added at one of its atoms (j) and subtracted at the
\* other (i), so every Cartesian component of the gradient sums to zero over
\* the atoms of the structure.
C20_OppositeScatter ==
    pside # "none" =>
        /\ \A k \in Dims : SumOver([a \in PairAtoms |-> pgrad[a][k]], PairAtoms) = 0
        /\ \A a \in PairAtoms : \A k \in Dims :
              LET n == Len(pstruct.i)
                  at_j == {b \in 1..n : pstruct.j[b] = a}
                  at_i == {b \in 1..n : pstruct.i[b] = a}
              IN  pgrad[a][k] = SumOver([b \in 1..n |-> pcontrib[b][k]], at_j)
                                  - SumOver([b \in 1..n |-> pcontrib[b][k]], at_i)

\* C20 witness: a Coulomb kernel's leftgrad over two pairs that share an atom,
\* with a gradient that does not vanish there
C20_Witness ==
    /\ pside = "left" /\ kernel = "CoulombPairSimilarity"
    /\ Len(pstruct.i) = 2 /\ pstruct.j[1] = pstruct.i[2]
    /\ pgrad[pstruct.j[1]] # ZeroVec /\ pgrad[pstruct.i[1]] # ZeroVec

\* C21: volatility is monotone.  The threshold never changes and ext_steps
\* only grows at its end, so once volatile() is false it is false in every
\* later state, also in what a later doit or update_model sees of it; a
\* controller built with a supplied model and no explicit threshold has
\* threshold -1 and is never volatile.
C21_VolatilityMonotone ==
    /\ [][/\ volatile_thr' = volatile_thr
          /\ Len(ext') >= Len(ext) /\ SubSeq(ext', 1, Len(ext)) = ext
          /\ ~volatile =>
                /\ ~volatile'
                /\ dec'.called => ~dec'.vol
                /\ upd'.called => ~upd'.vol]_vars
    /\ []((lastcall = "init" /\ Len(fp) = 0 /\ volatile_thr \notin (VolatileArgs \ {0}))
              => volatile_thr = VolatileWithModel)
    /\ [](volatile_thr = VolatileWithModel => ~volatile)

\* C21 witness: a controller with threshold 1 that had stopped being volatile
\* at its second extremum recorded a third one under run and stayed so
C21_Witness ==
    /\ volatile_thr = 1 /\ Len(ext) = 3 /\ ~volatile
    /\ lastcall = "run" /\ dec.called /\ dec.flagged /\ ~dec.vol

\* C22: bounded response while volatile.  Under run with probability 1, in
\* every state in which the controller is volatile and a reference evaluation
\* exists, step - fp_steps[-1] <= skip_volatile + 1: this holds at the
\* decision point a run iteration is about to take, and for the step and the
\* last evaluation of every doit call that left the controller volatile; a
\* decision that meets the bound with
\* equality is followed by an update that starts with a reference evaluation
\* at that step.
C22_BoundedResponse ==
    /\ (volatile /\ Len(fp) > 0) => step - Last(fp) <= skip_volatile + 1
    /\ (dec.called /\ dec.vol /\ Len(fp) > 0) =>
          /\ dec.step - dec.last <= skip_volatile + 1
          /\ (dec.vol /\ dec.step - dec.last = skip_volatile + 1) =>
                /\ dec.res /\ upd.called /\ upd.ran = "robust"
                /\ upd.err = "none" => Last(fp) = dec.step

\* C22 witness: a volatile controller reached the bound with no extremum, the
\* decision forced an update and its reference evaluation was recorded at
\* that step
C22_Witness ==
    /\ lastcall = "run" /\ outcome # "error"
    /\ dec.called /\ dec.vol /\ ~dec.flagged /\ dec.res
    /\ dec.step - dec.last = skip_volatile + 1
    /\ volatile /\ Len(fp) >= 2 /\ Last(fp) = dec.step /\ step = dec.step + 1

====
